---- MODULE Spec2Model ----
(***************************************************************************)
(* Console session of the gateway tool: the serial and the Telnet          *)
(* transport (serial_interface.py, telnet_interface.py), the session       *)
(* wrapper (gtw_operations.py) and the caller loop that drives them        *)
(* (cli_interface.py: run, test_reboot, exit).                             *)
(*                                                                         *)
(* Text is a sequence of characters.  A character is a TLA+ string; the    *)
(* fixed words of the protocol (a prompt body, a user name, one line of    *)
(* command output) are single characters, the separators that the code     *)
(* looks at (CR, LF, blank, ':' and '#') are characters of their own.      *)
(***************************************************************************)
EXTENDS Integers, Sequences, FiniteSets, TLC

\* ------------------------------------------------------------------ bounds
MaxHandles == 2     \* transport handles the session may open in one run
MaxEmit    == 1     \* chunks the device sends during one read_until, and
                    \* chunks that wait in the receive buffer
MaxBatch   == 2     \* commands in one batch

\* --------------------------------------------------------------- constants
max_retries == 3    \* TelnetInterface.read_until(max_retries=3)

CR == "\\r"
LF == "\\n"
CRLF == <<CR, LF>>
WS == {" ", CR, LF, "\\t"}

username        == <<"root">>
password        == <<"sah">>
login_prompt    == <<"login", ":">>
password_prompt == <<"Password", ":">>
main_prompt     == <<"/cfg/system/root ", "#">>
NoOutput        == <<"No output received">>
RebootSent      == <<"Reboot command sent">>

uptime == <<"uptime">>
uname  == <<"uname -a">>
reboot == <<"reboot">>
Commands == {uptime, uname, reboot}
\* command lines that look like a reboot: with white space around, with a flag
reboot_padded == <<" ", "reboot", LF>>
reboot_f      == <<"reboot", " ", "-f">>
RebootLike == {reboot, reboot_padded, reboot_f}
\* the commands of the menu operations that look at the result
ssid_get    == <<"pcb_cli wifi ssid">>          \* auto_connect_wifi
line_status == <<"pcb_cli voip line_status">>   \* config_voip
issue_local == <<"cat /etc/issue.local">>       \* auto_flash_image
config_cmd  == <<"pcb_cli config">>             \* _execute_config_commands
ping_cmd    == <<"ping -c 4 8.8.8.8">>          \* auto_ping_test
MenuCommands == {ssid_get, line_status, issue_local, config_cmd, ping_cmd}
tail   == <<"tail -F /var/log/messages">>   \* the command that is streamed
ETX    == "\\x03"

\* the line the device prints for a command
OutputOf(cmd) ==
    IF cmd = uname THEN <<"Linux gw 1.0", CR, LF>> ELSE <<"UP 3 days", CR, LF>>

\* ------------------------------------------------------------ text helpers
\* s[i..] starts with p
MatchAt(s, p, i) ==
    /\ i >= 1
    /\ i + Len(p) - 1 <= Len(s)
    /\ \A k \in 1..Len(p) : s[i + k - 1] = p[k]

\* str.find, 1-based; 0 when p does not occur in s
Find(s, p) ==
    IF \E i \in 1..(Len(s) + 1) : MatchAt(s, p, i)
    THEN CHOOSE i \in 1..(Len(s) + 1) :
            /\ MatchAt(s, p, i)
            /\ \A j \in 1..(i - 1) : ~MatchAt(s, p, j)
    ELSE 0

\* Python's `p in s`
Contains(s, p) == Find(s, p) # 0

\* str.replace(old, new) for a non-empty old: every non-overlapping
\* occurrence, scanning left to right
RECURSIVE Replace(_, _, _)
Replace(s, old, new) ==
    IF Find(s, old) = 0 THEN s
    ELSE LET i == Find(s, old)
         IN  SubSeq(s, 1, i - 1) \o new
               \o Replace(SubSeq(s, i + Len(old), Len(s)), old, new)

\* s.split(sep)[0]
SplitFirst(s, sep) ==
    IF Find(s, sep) = 0 THEN s ELSE SubSeq(s, 1, Find(s, sep) - 1)

\* str.strip()
RECURSIVE LStrip(_)
LStrip(s) == IF s # <<>> /\ Head(s) \in WS THEN LStrip(Tail(s)) ELSE s
RECURSIVE RStrip(_)
RStrip(s) ==
    IF s # <<>> /\ s[Len(s)] \in WS THEN RStrip(SubSeq(s, 1, Len(s) - 1)) ELSE s
Strip(s) == LStrip(RStrip(s))

\* a cleaning that leaves the echo in
EchoKept(output, cmd) == output

\* _clean_output(output, cmd, prompt)
CleanEcho(output, cmd) ==
    Replace(Replace(output, cmd \o CRLF, <<>>), cmd \o <<LF>>, <<>>)
clean_output(output, cmd, prompt) ==
    LET cleaned == CleanEcho(output, cmd)
    IN  Strip(IF Contains(cleaned, prompt) THEN SplitFirst(cleaned, prompt)
              ELSE cleaned)

\* a result value of execute_commands: a text, or None
Str(t) == [kind |-> "str", text |-> t]
None   == [kind |-> "none", text |-> <<>>]


\* ------------------------------------------------------------------- state
VARIABLES
    kind,        \* GTWOperations.connection_type: "serial" or "telnet"
    port,        \* SerialInterface.port ("" is None), TelnetInterface.port
    args,        \* what GTWOperations(connection_type, port) was called with
    conn,        \* self.serial_conn / self.tn: a handle, 0 is None
    handles,     \* every handle's state: "unopened", "open", "closed"
    disc,        \* the handles disconnect() has been called on
    rx,          \* the chunks the device sent that no read has handed out yet
    sent,        \* the last data written to the device
    pc,          \* where the caller and the session are
    inReboot,    \* inside CLIInterface.test_reboot
    rd,          \* the locals of the read_until call in progress
    batch,       \* execute_commands: commands
    idx,         \* execute_commands: position of the for loop (1-based)
    results,     \* execute_commands: results
    occ,         \* the value assigned at each position of the batch
    output_file, \* execute_commands: output_file ("" is None)
    log_file,    \* self.log_file: "none" is None, "open" an open file
    sink,        \* what the call in progress wrote to self.log_file
    trace,       \* transport reads and writes of the operation in progress
    connectRet,  \* what the last connect() returned
    loginRet,    \* what the last login() returned
    calRet       \* what the last connect_and_login() returned

sessVars == <<kind, port, args, conn, handles, disc>>
devVars  == <<rx, sent>>
execVars == <<batch, idx, results, occ, output_file, log_file, sink>>
retVars  == <<connectRet, loginRet, calRet>>
vars == <<kind, port, args, conn, handles, disc, rx, sent, pc, inReboot, rd,
          batch, idx, results, occ, output_file, log_file, sink, trace,
          connectRet, loginRet, calRet>>

Handles == 1..MaxHandles
NoResults == [c \in {} |-> None]
IdleRead == [st |-> "idle", given |-> <<>>, pats |-> <<>>, buf |-> <<>>,
             attempt |-> 0, val |-> <<>>, emits |-> 0]

RECURSIVE SeqsUpTo(_, _)
SeqsUpTo(S, n) ==
    IF n = 0 THEN {<<>>}
    ELSE LET shorter == SeqsUpTo(S, n - 1)
         IN  shorter \cup {Append(q, c) : q \in shorter, c \in S}
Batches == SeqsUpTo(Commands, MaxBatch) \ {<<>>}
\* the answers to "Enter output filename (leave empty for console only)"
OutputFiles == {"", "out.txt"}

Init ==
    /\ kind \in {"serial", "telnet"}
    /\ port \in (IF kind = "serial" THEN {"", "/dev/ttyUSB0"} ELSE {"23"})
    /\ args = [connection_type |-> kind, port |-> port]
    /\ conn = 0
    /\ handles = [h \in Handles |-> "unopened"]
    /\ disc = {}
    /\ rx = <<>>
    /\ sent = <<>>
    /\ pc = "run_retry"
    /\ inReboot = FALSE
    /\ rd = IdleRead
    /\ batch = <<>>
    /\ idx = 1
    /\ results = NoResults
    /\ occ = <<>>
    /\ output_file = ""
    /\ log_file = "none"
    /\ sink = <<>>
    /\ trace = <<>>
    /\ connectRet = "none"
    /\ loginRet = "none"
    /\ calRet = "none"

\* ------------------------------------------------------------ the transport
\* is_connected()
is_connected ==
    IF kind = "serial" THEN conn # 0 /\ handles[conn] = "open"
    ELSE conn # 0

HandleState(h) == IF h = 0 THEN "none" ELSE handles[h]

\* the text of a read as the trace keeps it: in a batch the text goes into
\* results and occ, and the trace only keeps that a read took place
Seen(text) == IF pc = "ex_read" THEN <<>> ELSE text

\* one entry of the trace, on the handle the session holds: "w" a write of
\* data, "r" a read that returned data, "x" a read that raised, "a" data that
\* arrived at the handle while stream_command runs; ok is false when the
\* transport raised in it
Event(ev, data, ok) ==
    [ev |-> ev, data |-> data, ok |-> ok, h |-> conn,
     hstate |-> HandleState(conn), afterDisc |-> conn \in disc]

\* the text waiting in the receive buffer
RECURSIVE Flatten(_)
Flatten(chunks) ==
    IF chunks = <<>> THEN <<>> ELSE Head(chunks) \o Flatten(Tail(chunks))
RxText == Flatten(rx)

\* the receive buffer once its first n characters were handed out
RECURSIVE DropChars(_, _)
DropChars(chunks, n) ==
    IF n = 0 \/ chunks = <<>> THEN chunks
    ELSE IF Len(Head(chunks)) <= n
         THEN DropChars(Tail(chunks), n - Len(Head(chunks)))
         ELSE <<SubSeq(Head(chunks), n + 1, Len(Head(chunks)))>>
                \o Tail(chunks)

\* send_command(command, end): full_command = f"{command}{end}"; end is
\* "\r\n" unless the caller gives another
full_command(command, end) == command \o end

\* a send that leaves the receive buffer as it is
NotDrained == rx

\* send_command: Telnet first drains what the device already sent
Drained == IF kind = "telnet" THEN <<>> ELSE rx

\* send_command(data) wrote data
SendOk(data) ==
    /\ is_connected
    /\ handles[conn] = "open"
    /\ rx' = Drained
    /\ trace' = Append(trace, Event("w", data, TRUE))
    /\ sent' = data

\* a send_command that writes before it looks at the connection
SendRaiseAfterWrite(data) ==
    /\ trace' = Append(trace, Event("w", data, FALSE))
    /\ rx' = Drained
    /\ UNCHANGED sent

\* send_command(data) raised: not connected, or the write failed
SendRaise(data) ==
    \/ /\ ~is_connected
       /\ UNCHANGED <<rx, trace, sent>>
    \/ /\ is_connected
       /\ rx' = Drained
       /\ trace' = Append(trace, Event("w", data, FALSE))
       /\ UNCHANGED sent

\* what the device may print in one piece.  After a command line: the whole
\* answer (echo, one line of output, the shell prompt), an answer that stops
\* before the prompt, or the prompt alone.  Otherwise one of the prompts of
\* the login dialogue.
DeviceChunks ==
    IF sent \in {c \o CRLF : c \in Commands \cup RebootLike \cup {tail}
                                   \cup MenuCommands}
    THEN LET answer ==
                 sent \o OutputOf(SubSeq(sent, 1, Len(sent) - Len(CRLF)))
         IN  {answer \o main_prompt, answer, main_prompt}
    ELSE {login_prompt, password_prompt, main_prompt}

\* the device prints something while read_until is waiting, or while
\* stream_command is in its loop
Emit ==
    /\ rd.st = "wait" \/ pc = "st_loop"
    /\ conn # 0
    /\ handles[conn] = "open"
    /\ rd.emits < MaxEmit
    /\ Len(rx) < MaxEmit
    /\ \E chunk \in DeviceChunks :
          /\ rx' = Append(rx, chunk)
          /\ trace' = IF pc = "st_loop"
                      THEN Append(trace, Event("a", chunk, TRUE))
                      ELSE trace
    /\ rd' = [rd EXCEPT !.emits = rd.emits + 1]
    /\ UNCHANGED <<sessVars, sent, pc, inReboot, execVars, retVars>>

\* --------------------------------------------------------------- read_until
\* read_until(patterns) is entered; the serial transport strips the patterns
BeginRead(patterns) ==
    [st |-> "wait",
     given |-> patterns,
     pats |-> IF kind = "serial"
              THEN [i \in 1..Len(patterns) |-> Strip(patterns[i])]
              ELSE patterns,
     buf |-> <<>>, attempt |-> 0, val |-> <<>>, emits |-> 0]

AnyPattern(pats, text) == \E i \in 1..Len(pats) : Contains(text, pats[i])

Returned(val) ==
    [rd EXCEPT !.st = "ret", !.val = val, !.buf = val, !.emits = 0]

\* SerialInterface.read_until: one pass of the polling loop with data waiting
SerialPoll ==
    /\ kind = "serial"
    /\ rd.st = "wait"
    /\ conn # 0
    /\ rx # <<>>
    /\ LET buffer == rd.buf \o RxText
       IN  IF AnyPattern(rd.pats, buffer)
           THEN /\ rd' = Returned(buffer)
                /\ trace' = Append(trace, Event("r", Seen(buffer), TRUE))
           ELSE /\ rd' = [rd EXCEPT !.buf = buffer]
                /\ trace' = trace
    /\ rx' = <<>>
    /\ UNCHANGED <<sessVars, sent, pc, inReboot, execVars, retVars>>

\* SerialInterface.read_until: the deadline passed, the buffer is returned
SerialTimeout ==
    /\ kind = "serial"
    /\ rd.st = "wait"
    /\ conn # 0
    /\ rd' = [Returned(rd.buf) EXCEPT !.attempt = 1]
    /\ trace' = Append(trace, Event("r", Seen(rd.buf), TRUE))
    /\ UNCHANGED <<sessVars, devVars, pc, inReboot, execVars, retVars>>

\* SerialInterface.read_until: in_waiting or read raised (or no handle)
SerialReadError ==
    /\ kind = "serial"
    /\ rd.st = "wait"
    /\ rd' = [rd EXCEPT !.st = "exc", !.emits = 0]
    /\ trace' = IF conn = 0 THEN trace
                ELSE Append(trace, Event("x", Seen(rd.buf), FALSE))
    /\ UNCHANGED <<sessVars, devVars, pc, inReboot, execVars, retVars>>

\* Telnet.expect: the first pattern of the list that occurs in the queue,
\* and the end of its first occurrence
FirstPattern(pats, text) ==
    CHOOSE i \in 1..Len(pats) :
        /\ Contains(text, pats[i])
        /\ \A j \in 1..(i - 1) : ~Contains(text, pats[j])
MatchEnd(pats, text) ==
    LET p == pats[FirstPattern(pats, text)]
    IN  Find(text, p) + Len(p) - 1

\* what read_until returns once its loop is over
FinalResult(buffer) == IF buffer # <<>> THEN buffer ELSE NoOutput

\* TelnetInterface.read_until: expect found a pattern
TelnetMatch ==
    /\ kind = "telnet"
    /\ rd.st = "wait"
    /\ conn # 0
    /\ handles[conn] = "open"
    /\ AnyPattern(rd.pats, RxText)
    /\ LET e == MatchEnd(rd.pats, RxText)
           buffer == rd.buf \o SubSeq(RxText, 1, e)
       IN  /\ rd' = Returned(buffer)
           /\ rx' = DropChars(rx, e)
           /\ trace' = Append(trace, Event("r", Seen(buffer), TRUE))
    /\ UNCHANGED <<sessVars, sent, pc, inReboot, execVars, retVars>>

\* a retry loop that sends the command again before it waits again
NextAttemptResend(buffer, ok) ==
    IF rd.attempt + 1 >= max_retries
    THEN /\ rd' = [Returned(FinalResult(buffer)) EXCEPT
                      !.attempt = rd.attempt + 1]
         /\ trace' = IF conn = 0 THEN trace
                     ELSE Append(trace,
                                 Event("r", Seen(FinalResult(buffer)), ok))
    ELSE /\ rd' = [rd EXCEPT !.buf = buffer, !.attempt = rd.attempt + 1]
         /\ trace' = Append(trace, Event("w", sent, TRUE))

\* the end of one attempt of the retry loop that did not match: the next
\* attempt, or the return when the retries are used up
NextAttempt(buffer, ok) ==
    IF rd.attempt + 1 >= max_retries
    THEN /\ rd' = [Returned(FinalResult(buffer)) EXCEPT
                      !.attempt = rd.attempt + 1]
         /\ trace' = IF conn = 0 THEN trace
                     ELSE Append(trace,
                                 Event("r", Seen(FinalResult(buffer)), ok))
    ELSE /\ rd' = [rd EXCEPT !.buf = buffer, !.attempt = rd.attempt + 1]
         /\ trace' = trace

\* TelnetInterface.read_until: expect timed out and handed out what it had
TelnetTimeout ==
    /\ kind = "telnet"
    /\ rd.st = "wait"
    /\ conn # 0
    /\ handles[conn] = "open"
    /\ ~AnyPattern(rd.pats, RxText)
    /\ NextAttempt(rd.buf \o RxText, TRUE)
    /\ rx' = <<>>
    /\ UNCHANGED <<sessVars, sent, pc, inReboot, execVars, retVars>>

\* TelnetInterface.read_until: expect raised EOFError, the loop is left
TelnetEOF ==
    /\ kind = "telnet"
    /\ rd.st = "wait"
    /\ conn # 0
    /\ rd' = [Returned(FinalResult(rd.buf)) EXCEPT !.attempt = rd.attempt + 1]
    /\ trace' = Append(trace, Event("r", Seen(FinalResult(rd.buf)), FALSE))
    /\ UNCHANGED <<sessVars, devVars, pc, inReboot, execVars, retVars>>

\* TelnetInterface.read_until: expect raised another exception (always so
\* when self.tn is None); it is logged and the loop goes on
TelnetReadError ==
    /\ kind = "telnet"
    /\ rd.st = "wait"
    /\ NextAttempt(rd.buf, FALSE)
    /\ UNCHANGED <<sessVars, devVars, pc, inReboot, execVars, retVars>>

\* ------------------------------------------------------------------ connect
\* the handle a successful open returns
NewHandle == CHOOSE h \in Handles :
                /\ handles[h] = "unopened"
                /\ \A g \in Handles : handles[g] = "unopened" => h <= g

\* connect() stores the new handle.  The handle it replaces is not closed by
\* the code; the runtime may or may not finalize it (fin).
StoreHandle(h, fin) ==
    /\ conn' = h
    /\ handles' = [g \in Handles |->
                     IF g = h THEN "open"
                     ELSE IF g = conn /\ fin THEN "closed"
                     ELSE handles[g]]

\* what a failed connect() leaves in the session
FailedConnect == UNCHANGED <<conn, handles>>

\* connect() of the transport, as connect_and_login calls it
\* (CLIInterface.run's retry loop, and the reconnect of test_reboot)
connect ==
    /\ pc \in {"run_retry", "rb_reconnect"}
    /\ trace' = <<>>
    /\ loginRet' = "none"
    /\ rd' = IdleRead
    /\ \/ \* serial: no port given and none detected
          /\ kind = "serial"
          /\ port = ""
          /\ FailedConnect
          /\ UNCHANGED <<port, rx, sent>>
          /\ connectRet' = "false"
          /\ calRet' = "false"
          /\ pc' = "cal_ret"
       \/ \* the open raises (or, for Telnet, times out)
          /\ \E p \in (IF kind = "serial" /\ port = ""
                       THEN {"/dev/ttyUSB0"} ELSE {port}) : port' = p
          /\ FailedConnect
          /\ UNCHANGED <<rx, sent>>
          /\ connectRet' = "false"
          /\ calRet' = "false"
          /\ pc' = "cal_ret"
       \/ \* the open succeeds
          /\ \E h \in Handles : handles[h] = "unopened"
          /\ \E p \in (IF kind = "serial" /\ port = ""
                       THEN {"/dev/ttyUSB0"} ELSE {port}) : port' = p
          /\ \E fin \in BOOLEAN : StoreHandle(NewHandle, fin)
          /\ rx' = <<>>
          /\ sent' = <<>>
          /\ connectRet' = "true"
          /\ calRet' = "none"
          /\ pc' = "cal_login"
    /\ UNCHANGED <<kind, args, disc, inReboot, execVars>>

\* -------------------------------------------------------------------- login
\* a connect_and_login that reports success whatever login returned
LoginReturnIgnored(v) ==
    /\ loginRet' = v
    /\ calRet' = "true"
    /\ connectRet' = connectRet
    /\ pc' = "cal_ret"
    /\ rd' = [rd EXCEPT !.emits = 0]

\* login() returns v, and connect_and_login returns it to its caller
LoginReturn(v) ==
    /\ loginRet' = v
    /\ calRet' = v
    /\ connectRet' = connectRet
    /\ pc' = "cal_ret"
    /\ rd' = [rd EXCEPT !.emits = 0]

\* login, up to its first read_until
login_start ==
    /\ pc = "cal_login"
    /\ IF kind = "serial"
       THEN \/ /\ SendOk(full_command(CRLF, CRLF))
               /\ rd' = BeginRead(<<login_prompt, main_prompt>>)
               /\ pc' = "lg_read1"
               /\ UNCHANGED retVars
            \/ /\ SendRaise(full_command(CRLF, CRLF))
               /\ LoginReturn("false")
       ELSE /\ rd' = BeginRead(<<login_prompt>>)
            /\ pc' = "lg_read1"
            /\ UNCHANGED <<devVars, trace, retVars>>
    /\ UNCHANGED <<sessVars, inReboot, execVars>>

\* the decision login takes on its first read: "true" (already logged in),
\* "false" (give up) or "go" (send the user name)
AfterFirstRead(response) ==
    IF kind = "serial"
    THEN IF Contains(response, main_prompt) THEN "true"
         ELSE IF ~Contains(response, login_prompt) THEN "false"
         ELSE "go"
    ELSE IF response = <<>> THEN "false" ELSE "go"

\* login, from the return of the first read_until to the second
login_username ==
    /\ pc = "lg_read1"
    /\ rd.st \in {"ret", "exc"}
    /\ IF rd.st = "exc"
       THEN LoginReturn("false") /\ UNCHANGED <<devVars, trace>>
       ELSE LET d == AfterFirstRead(rd.val)
            IN  IF d # "go"
                THEN LoginReturn(d) /\ UNCHANGED <<devVars, trace>>
                ELSE \/ /\ SendOk(username \o CRLF)
                        /\ rd' = BeginRead(<<password_prompt>>)
                        /\ pc' = "lg_read2"
                        /\ UNCHANGED retVars
                     \/ /\ SendRaise(username \o CRLF)
                        /\ LoginReturn("false")
    /\ UNCHANGED <<sessVars, inReboot, execVars>>

\* whether login goes on after the read for the password prompt
AfterPasswordRead(password_result) ==
    IF kind = "serial" THEN TRUE ELSE password_result # <<>>

\* login, from the return of the second read_until to the password write
login_password ==
    /\ pc = "lg_read2"
    /\ rd.st \in {"ret", "exc"}
    /\ IF rd.st = "exc" \/ ~AfterPasswordRead(rd.val)
       THEN LoginReturn("false") /\ UNCHANGED <<devVars, trace>>
       ELSE \/ /\ SendOk(password)
               /\ rd' = IdleRead
               /\ pc' = "lg_newline"
               /\ UNCHANGED retVars
            \/ /\ SendRaise(password)
               /\ LoginReturn("false")
    /\ UNCHANGED <<sessVars, inReboot, execVars>>

\* login: send_command("\r\n") after the password, then the last read
login_newline ==
    /\ pc = "lg_newline"
    /\ \/ /\ SendOk(full_command(CRLF, CRLF))
          /\ rd' = BeginRead(<<main_prompt>>)
          /\ pc' = "lg_read3"
          /\ UNCHANGED retVars
       \/ /\ SendRaise(full_command(CRLF, CRLF))
          /\ LoginReturn("false")
    /\ UNCHANGED <<sessVars, inReboot, execVars>>

\* the outcome of login once the last read returned
AfterLastRead(r) == IF r = <<>> THEN "false" ELSE "true"

\* login, from the return of the last read_until to its own return
login_finish ==
    /\ pc = "lg_read3"
    /\ rd.st \in {"ret", "exc"}
    /\ LoginReturn(IF rd.st = "exc" THEN "false" ELSE AfterLastRead(rd.val))
    /\ UNCHANGED <<sessVars, devVars, inReboot, execVars, trace>>

\* --------------------------------------------------------- execute_commands
\* a loop that leaves a failed command out of the mapping
AssignUnlessNone(res, cmd, v) ==
    IF v = None THEN res
    ELSE [c \in (DOMAIN res) \cup {cmd} |-> IF c = cmd THEN v ELSE res[c]]

\* a loop that keeps the first value stored for a command
AssignFirst(res, cmd, v) ==
    [c \in (DOMAIN res) \cup {cmd} |-> IF c \in DOMAIN res THEN res[c] ELSE v]

\* results[cmd] = v
Assign(res, cmd, v) ==
    [c \in (DOMAIN res) \cup {cmd} |-> IF c = cmd THEN v ELSE res[c]]

\* a loop that a failed command ends: nothing after it is attempted
RecordOrAbort(v) ==
    /\ results' = Assign(results, batch[idx], v)
    /\ occ' = Append(occ, v)
    /\ idx' = IF v = None THEN Len(batch) + 1 ELSE idx + 1
    /\ UNCHANGED <<batch, output_file, log_file>>
    /\ rd' = IdleRead
    /\ pc' = "ex_loop"

\* "=== Session started at ... ===", and "Command: cmd", the cleaned output
\* and the line of "="
Header == [t |-> "header", cmd |-> <<>>, text |-> <<>>]
Entry(cmd, cleaned) == [t |-> "entry", cmd |-> cmd, text |-> cleaned]

\* a loop that writes nothing after the header
NotLogged(log, cmd, cleaned) == log

\* if self.log_file: self.log_file.write(...)
Logged(log, cmd, cleaned) ==
    IF log_file = "open" THEN Append(log, Entry(cmd, cleaned)) ELSE log

\* the for loop stores v for the command at idx and goes to the next command
Record(v) ==
    /\ results' = Assign(results, batch[idx], v)
    /\ occ' = Append(occ, v)
    /\ idx' = idx + 1
    /\ UNCHANGED <<batch, output_file, log_file>>
    /\ rd' = IdleRead
    /\ pc' = "ex_loop"

\* execute_commands is entered with this batch and this output file: the
\* file is opened and kept in self.log_file
BeginBatch(b, f) ==
    /\ batch' = b
    /\ idx' = 1
    /\ results' = NoResults
    /\ occ' = <<>>
    /\ output_file' = f
    /\ log_file' = IF f # "" THEN "open" ELSE log_file
    /\ sink' = IF f # "" THEN <<Header>> ELSE <<>>
    /\ trace' = <<>>
    /\ pc' = "ex_loop"

\* a test that compares the command as it was given
is_reboot_untrimmed(cmd) == cmd = reboot

\* cmd.strip() == "reboot"
is_reboot(cmd) == Strip(cmd) = reboot

\* one pass of the for loop up to the read: the command is sent; a reboot is
\* answered at once, any other command waits for the prompt
execute_send ==
    /\ pc = "ex_loop"
    /\ idx <= Len(batch)
    /\ LET cmd == batch[idx]
       IN  \/ /\ SendOk(cmd \o CRLF)
              /\ IF is_reboot(cmd)
                 THEN Record(Str(RebootSent)) /\ sink' = sink
                 ELSE /\ rd' = BeginRead(<<main_prompt>>)
                      /\ pc' = "ex_read"
                      /\ UNCHANGED execVars
           \/ /\ SendRaise(cmd \o CRLF)
              /\ Record(None)
              /\ sink' = sink
    /\ UNCHANGED <<sessVars, inReboot, retVars>>

\* the rest of the pass: read_until returned, the output is cleaned and stored
execute_store ==
    /\ pc = "ex_read"
    /\ rd.st \in {"ret", "exc"}
    /\ IF rd.st = "exc"
       THEN Record(None) /\ sink' = sink
       ELSE LET cleaned == clean_output(rd.val, batch[idx], main_prompt)
            IN  /\ sink' = Logged(sink, batch[idx], cleaned)
                /\ Record(Str(cleaned))
    /\ UNCHANGED <<sessVars, devVars, inReboot, trace, retVars>>

\* the loop is over: the log file is closed, execute_commands returns results
execute_return ==
    /\ pc = "ex_loop"
    /\ idx > Len(batch)
    /\ log_file' = "none"
    /\ pc' = "ex_ret"
    /\ UNCHANGED <<sessVars, devVars, inReboot, rd, batch, idx, results, occ,
                   output_file, sink, trace, retVars>>

\* Ctrl-C while execute_commands is in its loop: KeyboardInterrupt is not an
\* Exception, so it leaves the loop and execute_commands and reaches
\* CLIInterface.run
execute_interrupt ==
    /\ pc = "ex_read" \/ (pc = "ex_loop" /\ idx <= Len(batch))
    /\ pc' = "interrupted"
    /\ batch' = <<>>
    /\ idx' = 1
    /\ results' = NoResults
    /\ occ' = <<>>
    /\ output_file' = ""
    /\ log_file' = log_file
    /\ sink' = <<>>
    /\ rd' = IdleRead
    /\ trace' = <<>>
    /\ inReboot' = FALSE
    /\ UNCHANGED <<sessVars, devVars, retVars>>

\* ----------------------------------------------------------- stream_command
\* what waits in the receive buffer when the loop of stream_command starts
Waiting(text) == IF text = <<>> THEN <<>> ELSE <<Event("a", text, TRUE)>>

\* stream_command sends the command and enters its loop; when send_command
\* raises, the exception is logged and raised again, up to CLIInterface.run
stream_start ==
    /\ pc = "menu"
    /\ \/ /\ is_connected
          /\ handles[conn] = "open"
          /\ rx' = Drained
          /\ sent' = tail \o CRLF
          /\ trace' = Append(trace, Event("w", tail \o CRLF, TRUE))
                         \o Waiting(Flatten(Drained))
          /\ pc' = "st_loop"
       \/ /\ SendRaise(tail \o CRLF)
          /\ pc' = "st_raise"
    /\ UNCHANGED <<sessVars, inReboot, rd, execVars, retVars>>

\* a loop that is left once the prompt has been printed
stream_forward_until_prompt ==
    /\ pc = "st_loop"
    /\ rx # <<>>
    /\ trace' = Append(trace, Event("r", RxText, TRUE))
    /\ rx' = <<>>
    /\ pc' = IF Contains(RxText, main_prompt) THEN "st_ret" ELSE "st_loop"
    /\ UNCHANGED <<sessVars, sent, inReboot, rd, execVars, retVars>>

\* one pass of the loop with data waiting: the data is read and forwarded
stream_forward ==
    /\ pc = "st_loop"
    /\ rx # <<>>
    /\ trace' = Append(trace, Event("r", RxText, TRUE))
    /\ rx' = <<>>
    /\ UNCHANGED <<sessVars, sent, pc, inReboot, rd, execVars, retVars>>

\* the read of the loop raises: the exception is logged and raised again
stream_error ==
    /\ pc = "st_loop"
    /\ trace' = Append(trace, Event("x", <<>>, FALSE))
    /\ pc' = "st_raise"
    /\ rd' = IdleRead
    /\ UNCHANGED <<sessVars, devVars, inReboot, execVars, retVars>>

\* what is written to the device when the stream is cancelled
Interrupt == IF kind = "serial" THEN <<ETX>> \o CRLF ELSE <<ETX>>

\* a cancellation that tears the session down
stream_cancel_and_close ==
    /\ pc = "st_loop"
    /\ handles[conn] = "open"
    /\ trace' = Append(trace, Event("w", Interrupt, TRUE))
    /\ handles' = [handles EXCEPT ![conn] = "closed"]
    /\ conn' = 0
    /\ sent' = <<>>
    /\ pc' = "st_ret"
    /\ rd' = IdleRead
    /\ UNCHANGED <<kind, port, args, disc, rx, inReboot, execVars, retVars>>

\* KeyboardInterrupt in the loop: the interrupt is written, stream_command
\* returns; when that write raises, the exception is raised again
stream_cancel ==
    /\ pc = "st_loop"
    /\ \/ /\ handles[conn] = "open"
          /\ trace' = Append(trace, Event("w", Interrupt, TRUE))
          /\ rx' = rx
          /\ sent' = <<>>
          /\ pc' = "st_ret"
       \/ /\ trace' = Append(trace, Event("w", Interrupt, FALSE))
          /\ UNCHANGED devVars
          /\ pc' = "st_raise"
    /\ rd' = IdleRead
    /\ UNCHANGED <<sessVars, inReboot, execVars, retVars>>

\* the caller is back in the menu after stream_command
after_stream ==
    /\ pc = "st_ret"
    /\ pc' = "menu"
    /\ trace' = <<>>
    /\ UNCHANGED <<sessVars, devVars, inReboot, rd, execVars, retVars>>

\* --------------------------------------------------------------- disconnect
\* disconnect() calls close() on the handle
NeedsClose ==
    IF kind = "serial" THEN conn # 0 /\ handles[conn] = "open" ELSE conn # 0

\* a disconnect() that closes the handle and keeps the reference
AfterDisconnectKept == conn

\* the handle the session holds once disconnect() returned normally
AfterDisconnect == 0

\* disconnect() returns normally
DisconnectOk ==
    /\ conn' = AfterDisconnect
    /\ IF NeedsClose
       THEN /\ handles' = [handles EXCEPT ![conn] = "closed"]
            /\ disc' = disc \cup {conn}
       ELSE UNCHANGED <<handles, disc>>

\* close() raises and disconnect() raises it again: the handle is kept, and
\* whether the descriptor is still open is up to the library
DisconnectRaise ==
    /\ NeedsClose
    /\ conn' = conn
    /\ \E st \in {"open", "closed"} : handles' = [handles EXCEPT ![conn] = st]
    /\ disc' = disc \cup {conn}

\* --------------------------------------------------------------- the caller
\* CLIInterface.run and test_reboot: connect_and_login returned
after_connect_and_login ==
    /\ pc = "cal_ret"
    /\ IF inReboot THEN pc' = "menu"
       ELSE IF calRet = "true" THEN pc' = "menu"
       ELSE pc' = "ask_retry"
    /\ inReboot' = FALSE
    /\ trace' = <<>>
    /\ rd' = IdleRead
    /\ sent' = <<>>
    /\ connectRet' = "none"
    /\ loginRet' = "none"
    /\ calRet' = "none"
    /\ UNCHANGED <<sessVars, rx, execVars>>

\* CLIInterface.run: "Connection failed. Retry?"
ask_retry ==
    /\ pc = "ask_retry"
    /\ \E answer \in {"y", "n"} :
          pc' = IF answer = "y" THEN "run_retry" ELSE "exit"
    /\ UNCHANGED <<sessVars, devVars, inReboot, rd, execVars, trace, retVars>>

\* menu: run_custom_cmd calls execute_commands with the one command typed
run_custom_cmd ==
    /\ pc = "menu"
    /\ \E cmd \in Commands, f \in OutputFiles : BeginBatch(<<cmd>>, f)
    /\ UNCHANGED <<sessVars, devVars, inReboot, rd, retVars>>

\* menu: get_system_info calls execute_commands with the configured list
get_system_info ==
    /\ pc = "menu"
    /\ \E b \in Batches, f \in OutputFiles : BeginBatch(b, f)
    /\ UNCHANGED <<sessVars, devVars, inReboot, rd, retVars>>

\* menu: test_reboot sends the reboot command
menu_test_reboot ==
    /\ pc = "menu"
    /\ inReboot' = TRUE
    /\ BeginBatch(<<reboot>>, "")
    /\ UNCHANGED <<sessVars, devVars, rd, retVars>>

\* menu: Exit
menu_exit ==
    /\ pc = "menu"
    /\ pc' = "exit"
    /\ UNCHANGED <<sessVars, devVars, inReboot, rd, execVars, trace, retVars>>

\* the caller got the results of execute_commands
after_execute ==
    /\ pc = "ex_ret"
    /\ pc' = IF inReboot THEN "rb_close" ELSE "menu"
    /\ batch' = <<>>
    /\ idx' = 1
    /\ results' = NoResults
    /\ occ' = <<>>
    /\ output_file' = ""
    /\ log_file' = log_file
    /\ sink' = <<>>
    /\ trace' = <<>>
    /\ sent' = <<>>
    /\ UNCHANGED <<sessVars, rx, inReboot, rd, retVars>>

\* test_reboot: gtw.close(), then the wait for the device (Telnet only)
reboot_close ==
    /\ pc = "rb_close"
    /\ trace' = trace
    /\ \/ /\ DisconnectOk
          /\ \/ /\ pc' = "rb_reconnect"
                /\ UNCHANGED inReboot
             \/ \* _wait_for_ping timed out
                /\ kind = "telnet"
                /\ pc' = "menu"
                /\ inReboot' = FALSE
       \/ \* disconnect() and close() raise the exception again
          /\ DisconnectRaise
          /\ pc' = "close_raise"
          /\ inReboot' = FALSE
    /\ UNCHANGED <<kind, port, args, devVars, rd, execVars, retVars>>

\* CLIInterface.run: an exception raised by a menu entry reaches the except
\* clause, which calls exit()
run_except ==
    /\ pc \in {"st_raise", "close_raise", "interrupted", "op_raise"}
    /\ pc' = "exit_h"
    /\ trace' = <<>>
    /\ UNCHANGED <<sessVars, devVars, inReboot, rd, execVars, retVars>>

\* CLIInterface.exit: gtw.close(), then SystemExit.  When close() raises in
\* an exit() called from the loops of run(), the exception reaches the except
\* clause of run(); when it raises in the exit() of the except clause, it
\* leaves run().
exit ==
    /\ pc \in {"exit", "exit_h"}
    /\ trace' = trace
    /\ \/ DisconnectOk /\ pc' = "done"
       \/ /\ DisconnectRaise
          /\ pc' = IF pc = "exit" THEN "close_raise" ELSE "crashed"
    /\ UNCHANGED <<kind, port, args, devVars, inReboot, rd, execVars, retVars>>

\* ---------------------------------------------------------------- the model
Next ==
    \/ Emit
    \/ SerialPoll
    \/ SerialTimeout
    \/ SerialReadError
    \/ TelnetMatch
    \/ TelnetTimeout
    \/ TelnetEOF
    \/ TelnetReadError
    \/ connect
    \/ login_start
    \/ login_username
    \/ login_password
    \/ login_newline
    \/ login_finish
    \/ execute_send
    \/ execute_store
    \/ execute_return
    \/ execute_interrupt
    \/ after_connect_and_login
    \/ ask_retry
    \/ run_custom_cmd
    \/ menu_test_reboot
    \/ menu_exit
    \/ after_execute
    \/ stream_start
    \/ stream_forward
    \/ stream_error
    \/ stream_cancel
    \/ after_stream
    \/ reboot_close
    \/ run_except
    \/ exit

Spec == Init /\ [][Next]_vars

\* ------------------------------------------------- batches, from the menu
\* The caller is at the menu and the session is in one of the states the menu
\* is reached in: logged in on its first handle, or Disconnected after a
\* reboot test whose reconnect failed; the receive buffer is empty or holds
\* a prompt no read has taken.
InitExec ==
    /\ kind \in {"serial", "telnet"}
    /\ port = IF kind = "serial" THEN "/dev/ttyUSB0" ELSE "23"
    /\ args = [connection_type |-> kind, port |-> port]
    /\ \/ conn = 1 /\ handles = [h \in Handles |-> IF h = 1 THEN "open" ELSE "unopened"]
             /\ disc = {}
       \/ conn = 0 /\ handles = [h \in Handles |-> IF h = 1 THEN "closed" ELSE "unopened"]
             /\ disc = {1}
       \/ conn = 0 /\ handles = [h \in Handles |-> "unopened"]
             /\ disc = {}
    /\ rx \in {<<>>, <<main_prompt>>}
    /\ sent = <<>>
    /\ pc = "menu"
    /\ inReboot = FALSE
    /\ rd = IdleRead
    /\ batch = <<>>
    /\ idx = 1
    /\ results = NoResults
    /\ occ = <<>>
    /\ output_file = ""
    /\ log_file = "none"
    /\ sink = <<>>
    /\ trace = <<>>
    /\ connectRet = "none"
    /\ loginRet = "none"
    /\ calRet = "none"

NextExec ==
    \/ get_system_info
    \/ execute_send
    \/ execute_store
    \/ execute_return
    \/ after_execute
    \/ Emit
    \/ SerialPoll
    \/ SerialTimeout
    \/ SerialReadError
    \/ TelnetMatch
    \/ TelnetTimeout
    \/ TelnetEOF
    \/ TelnetReadError

SpecExec == InitExec /\ [][NextExec]_vars

\* ------------------------------------- batches of commands that look like
\* a reboot, handed to execute_commands as they are
RebootBatches == SeqsUpTo(RebootLike, MaxBatch) \ {<<>>}

reboot_batch ==
    /\ pc = "menu"
    /\ \E b \in RebootBatches : BeginBatch(b, "")
    /\ UNCHANGED <<sessVars, devVars, inReboot, rd, retVars>>

NextReboot ==
    \/ reboot_batch
    \/ execute_send
    \/ execute_store
    \/ execute_return
    \/ after_execute
    \/ Emit
    \/ SerialPoll
    \/ SerialTimeout
    \/ SerialReadError
    \/ TelnetMatch
    \/ TelnetTimeout
    \/ TelnetEOF
    \/ TelnetReadError

SpecReboot == InitExec /\ [][NextReboot]_vars

\* ------------------------------------------------------- reading the trace
IsRead(e)  == e.ev = "r"
IsWrite(e) == e.ev = "w"
IsArrival(e) == e.ev = "a"
\* the read_until calls that returned, and the writes, in order
Reads  == SelectSeq(trace, IsRead)
Writes == SelectSeq(trace, IsWrite)

\* the session is inside login, or login has just returned
InLogin == pc \in {"lg_read1", "lg_read2", "lg_newline", "lg_read3"}
             \/ (pc = "cal_ret" /\ loginRet # "none")
LoginReturned == pc = "cal_ret" /\ loginRet # "none"

WroteUsername == \E i \in 1..Len(trace) :
                    IsWrite(trace[i]) /\ trace[i].data = username \o CRLF
WrotePassword == \E i \in 1..Len(trace) :
                    IsWrite(trace[i]) /\ trace[i].data = password

OpenHandles == {h \in Handles : handles[h] = "open"}

\* ------------------------------------------------------------------ claims

\* C1: login returns true if and only if the main prompt was observed in the
\* device output, in the first read or in the read that follows the password;
\* when the main prompt never appears login returns false.
MainPromptSeen ==
    \/ Len(Reads) >= 1 /\ Contains(Reads[1].data, main_prompt)
    \/ Len(Reads) = 3 /\ Contains(Reads[3].data, main_prompt)
C1_LoginTrueIffMainPromptSeen ==
    LoginReturned => (loginRet = "true" <=> MainPromptSeen)

\* C2: in login the failure of one step is the failure of login: when the
\* login prompt is not observed, or the password prompt is not observed after
\* the user name was sent, or the transport raises, login goes no further and
\* returns false.
LoginStepFailed ==
    \/ /\ Len(Reads) >= 1
       /\ ~Contains(Reads[1].data, login_prompt)
       /\ ~Contains(Reads[1].data, main_prompt)
    \/ /\ Len(Reads) >= 2
       /\ ~Contains(Reads[2].data, password_prompt)
    \/ \E i \in 1..Len(trace) : ~trace[i].ok
C2_StepFailureFailsLogin ==
    (InLogin /\ LoginStepFailed) =>
        /\ pc = "cal_ret" => loginRet = "false"
        /\ pc # "cal_ret" =>
              /\ rd.st \in {"ret", "exc"}
              /\ trace[Len(trace)].ev \in {"r", "x"}
              /\ \/ ~trace[Len(trace)].ok
                 \/ Len(Reads) = 1
                 \/ Len(Reads) = 2 /\ Contains(Reads[1].data, login_prompt)

\* C3: during login a credential is written only after its prompt was
\* observed: the user name only when the read before it found the login
\* prompt, the password only when the read before it found the password prompt.
PromptBefore(i, prompt) ==
    /\ i > 1
    /\ IsRead(trace[i - 1])
    /\ Contains(trace[i - 1].data, prompt)
C3_CredentialsOnlyAfterPrompt ==
    InLogin =>
        \A i \in 1..Len(trace) :
            /\ (IsWrite(trace[i]) /\ trace[i].data = username \o CRLF)
                  => PromptBefore(i, login_prompt)
            /\ (IsWrite(trace[i]) /\ trace[i].data = password)
                  => PromptBefore(i, password_prompt)

\* C4: idempotent login: when the main prompt is the first thing observed and
\* no login prompt appears, login returns true and writes neither the user
\* name nor the password.
MainPromptFirst ==
    /\ Len(Reads) >= 1
    /\ Contains(Reads[1].data, main_prompt)
    /\ ~Contains(Reads[1].data, login_prompt)
C4_IdempotentLogin ==
    (InLogin /\ MainPromptFirst) =>
        /\ ~WroteUsername
        /\ ~WrotePassword
        /\ pc \in {"lg_read1", "cal_ret"}
        /\ pc = "cal_ret" => loginRet = "true"

\* C5: a login that fails returns the session to Disconnected: once login or
\* connect_and_login has returned false the handle is closed or cleared and
\* is_connected() is false.
C5_FailedLoginDisconnects ==
    (pc = "cal_ret" /\ calRet = "false") =>
        /\ ~is_connected
        /\ conn = 0 \/ handles[conn] # "open"

\* C6: a connect() whose open fails returns false and leaves the session
\* Disconnected: is_connected() is false.
C6_FailedConnectDisconnected ==
    (pc = "cal_ret" /\ connectRet = "false") => ~is_connected

\* C7: at most one transport handle opened by the session is open, in every
\* reachable state.
C7_AtMostOneOpenHandle == Cardinality(OpenHandles) <= 1

BatchCommands == {batch[i] : i \in 1..Len(batch)}
C9_KeysAreDistinctCommands ==
    pc = "ex_ret" =>
        /\ DOMAIN results = BatchCommands
        /\ Cardinality(DOMAIN results) = Cardinality(BatchCommands)
\* a batch with the same command twice, whose one key holds None
C9_Witness ==
    /\ pc = "ex_ret"
    /\ Len(batch) = 2
    /\ batch[1] = batch[2]
    /\ Cardinality(DOMAIN results) = 1
    /\ results[batch[1]] = None

\* C10: when a command occurs more than once in a batch every occurrence is
\* sent, and the mapping holds the result of its last occurrence, also when
\* the last occurrence failed and an earlier one succeeded.
LastIndex(c) == CHOOSE i \in 1..Len(batch) :
                    /\ batch[i] = c
                    /\ \A j \in (i + 1)..Len(batch) : batch[j] # c
C10_LastOccurrenceWins ==
    pc = "ex_ret" =>
        /\ Len(occ) = Len(batch)
        /\ \A c \in BatchCommands : results[c] = occ[LastIndex(c)]
        /\ is_connected =>
              /\ Len(Writes) = Len(batch)
              /\ \A i \in 1..Len(batch) : Writes[i].data = batch[i] \o CRLF
\* the same command twice, both written; the first got an answer, the last
\* failed, and the mapping holds None
C10_Witness ==
    /\ pc = "ex_ret"
    /\ Len(batch) = 2
    /\ batch[1] = batch[2]
    /\ Len(Writes) = 2
    /\ occ[1] # None
    /\ occ[2] = None
    /\ results[batch[1]] = None

\* C11: in execute_commands an exception raised while one command is sent or
\* read is caught for that command only: None is stored for it and the loop
\* goes on with the next command, so that every command of the batch has been
\* attempted when execute_commands returns.
CommandRaised ==
    \/ /\ pc = "ex_loop"
       /\ idx <= Len(batch)
       /\ \/ ~is_connected
          \/ trace' = Append(trace, Event("w", batch[idx] \o CRLF, FALSE))
    \/ /\ pc = "ex_read"
       /\ rd.st = "exc"
CaughtForThatCommand ==
    /\ batch' = batch
    /\ results'[batch[idx]] = None
    /\ occ' = Append(occ, None)
    /\ idx' = idx + 1
    /\ pc' = "ex_loop"
C11_FailureIsPerCommand ==
    /\ [](pc = "ex_ret" => /\ idx = Len(batch) + 1
                           /\ Len(occ) = Len(batch))
    /\ [][CommandRaised => CaughtForThatCommand]_vars
\* a batch of two whose first command raised and whose second got its answer
C11_Witness ==
    /\ pc = "ex_ret"
    /\ Len(batch) = 2
    /\ occ[1] = None
    /\ occ[2] # None
    /\ occ[2] # Str(RebootSent)
    /\ Len(Writes) = 2

\* C12: when the prompt is not observed for a command within the read budget
\* (the read_until comes back without it), the entry stored for that command
\* is None, not a string made of the partial buffer or of the sentinel.
PromptNotObserved ==
    /\ pc = "ex_read"
    /\ rd.st = "ret"
    /\ ~AnyPattern(rd.pats, rd.val)
C12_TimeoutGivesNone ==
    [][PromptNotObserved => results'[batch[idx]] = None]_vars

\* C13: a command is special-cased exactly when its text without the white
\* space around it is "reboot": it is sent, no read_until follows it, its
\* result is "Reboot command sent" under the command string as given, and the
\* batch goes on; any other command (reboot -f) waits for the prompt.
WriteIndex(k) == Cardinality({j \in 1..k : IsWrite(trace[j])})
CommandOf(e) == SubSeq(e.data, 1, Len(e.data) - Len(CRLF))
C13_RebootIsSpecialCased ==
    pc \in {"ex_loop", "ex_read", "ex_ret"} =>
        \A k \in 1..Len(trace) :
            (IsWrite(trace[k]) /\ trace[k].ok) =>
                LET cmd == CommandOf(trace[k])
                    j == WriteIndex(k)
                IN  /\ cmd = batch[j]
                    /\ IF Strip(cmd) = reboot
                       THEN /\ k < Len(trace) => IsWrite(trace[k + 1])
                            /\ k = Len(trace) => pc # "ex_read"
                            /\ j <= Len(occ)
                            /\ occ[j] = Str(RebootSent)
                            /\ cmd \in DOMAIN results
                            /\ j = LastIndex(cmd)
                                  => results[cmd] = Str(RebootSent)
                       ELSE /\ k < Len(trace)
                                  => trace[k + 1].ev \in {"r", "x"}
                            /\ k = Len(trace) => pc = "ex_read"
                            /\ j <= Len(occ) => occ[j] # Str(RebootSent)
\* a padded reboot followed by reboot -f: two writes and one read, the first
\* answered at once, the second with the output the device sent
C13_Witness ==
    /\ pc = "ex_ret"
    /\ batch = <<reboot_padded, reboot_f>>
    /\ Len(Writes) = 2
    /\ Len(Reads) = 1
    /\ results[reboot_padded] = Str(RebootSent)
    /\ results[reboot_f] = Str(<<"UP 3 days">>)

\* C14: no transport failure leaves the session as an exception: a failure
\* in connect, login, execute_commands or stream_command, also while
\* streaming or while the interrupt byte is sent, ends in a returned value;
\* no operation of the session is left by an exception that goes up to the
\* caller.
C14_NoTransportFailureEscapes == pc # "st_raise"

\* C15: a failure while the transport is closed is logged and swallowed:
\* disconnect() and GTWOperations.close() never raise to their caller.
C15_CloseFailureSwallowed == pc \notin {"close_raise", "crashed"}

\* C16: disconnect() is idempotent: however often it is called, the handle is
\* closed at most once, a repeated call (on a session that holds no handle, or
\* a handle disconnect() was already called on) does not raise, and the
\* session is Disconnected after it.
DisconnectCalled == pc \in {"rb_close", "exit", "exit_h"}
RepeatedCall == conn = 0 \/ conn \in disc
C16_DisconnectIdempotent ==
    [][DisconnectCalled =>
          /\ NeedsClose => conn \notin disc
          /\ RepeatedCall => /\ pc' \notin {"close_raise", "crashed"}
                             /\ conn' = 0]_vars

\* C17: the output sink is never held open across two calls: whenever no
\* execute_commands call is in progress the session holds no open sink
\* (log_file is None), also after a call that an interrupt cut short; and a
\* call made without an output file finds no sink an earlier call opened.
CallInProgress == pc \in {"ex_loop", "ex_read"}
C17_SinkClosedBetweenCalls ==
    /\ ~CallInProgress => log_file = "none"
    /\ (CallInProgress /\ output_file = "") => log_file = "none"

\* C18: when stream_command is cancelled, what is written to the device is
\* exactly the one interrupt byte 0x03, with no line terminator after it, on
\* the serial and on the Telnet transport.
C18_InterruptIsSingleByte ==
    pc = "st_ret" =>
        /\ Len(Writes) = 2
        /\ Writes[1].data = tail \o CRLF
        /\ Writes[2] = trace[Len(trace)]
        /\ Writes[2].data = <<ETX>>

\* C19: once stream_command is cancelled it returns without another read from
\* the transport (it does not wait for the device), and the session is left
\* connected: the handle is the one the stream ran on and is still open, so a
\* following execute_commands can send on it.
C19_CancelLeavesSessionConnected ==
    pc = "st_ret" =>
        /\ IsWrite(trace[Len(trace)])
        /\ trace[Len(trace)].data[1] = ETX
        /\ conn # 0
        /\ \A i \in 1..Len(trace) : trace[i].h = conn
        /\ handles[conn] = "open"
        /\ is_connected
\* the stream was cancelled while device output was waiting unread
C19_Witness ==
    /\ pc = "st_ret"
    /\ rx # <<>>
    /\ is_connected

\* C20: stream_command writes the command once, then forwards every chunk
\* that becomes available exactly once and in the order of arrival; the loop
\* does not end on its own, neither on the prompt nor on silence: it is left
\* only by a cancellation or by a transport error.
Texts(events) == Flatten([i \in 1..Len(events) |-> events[i].data])
Arrived   == Texts(SelectSeq(trace, IsArrival))
Forwarded == Texts(Reads)
LoopLeftByCancelOrError ==
    /\ Len(trace') = Len(trace) + 1
    /\ LET e == trace'[Len(trace')]
       IN  \/ IsWrite(e) /\ e.data[1] = ETX
           \/ ~e.ok
C26_PasswordThenBareTerminator ==
    InLogin =>
        \A i \in 1..Len(Writes) :
            Writes[i].data = password =>
                (i < Len(Writes) => Writes[i + 1].data = CRLF)

\* C27: on both transports the first transport action of login is the write
\* of a bare line break, one line terminator, before the first read_until.
C27_LoginStartsWithLineBreak ==
    (InLogin /\ trace # <<>>) =>
        /\ IsWrite(trace[1])
        /\ trace[1].data = CRLF

\* C28: connect_and_login always returns a boolean and never raises: false,
\* without a login attempt, when connect fails; otherwise what login
\* returned; true only with an open transport and a login that reported
\* success.
C28_ConnectAndLoginOutcome ==
    pc = "cal_ret" =>
        /\ calRet \in {"true", "false"}
        /\ connectRet \in {"true", "false"}
        /\ connectRet = "false" =>
              /\ calRet = "false"
              /\ loginRet = "none"
              /\ trace = <<>>
        /\ connectRet = "true" => calRet = loginRet
        /\ calRet = "true" =>
              /\ loginRet = "true"
              /\ is_connected
              /\ handles[conn] = "open"
\* a transport failure during login came back as false
C28_Witness ==
    /\ pc = "cal_ret"
    /\ connectRet = "true"
    /\ loginRet = "false"
    /\ calRet = "false"
    /\ \E i \in 1..Len(trace) : ~trace[i].ok

\* C30: the transport of the session is closed on every way out of
\* CLIInterface.run (menu Exit, a declined retry, a keyboard interrupt, an
\* exception in a menu operation): disconnect has been called on it before
\* the process ends, and the process ends with SystemExit.
ProcessEnded == pc \in {"done", "crashed"}
C30_ClosedOnEveryExit ==
    ProcessEnded =>
        /\ pc = "done"
        /\ conn = 0
        /\ OpenHandles = {}

RECURSIVE EntriesUpTo(_)
EntriesUpTo(n) ==
    IF n = 0 THEN <<>>
    ELSE IF occ[n] # None /\ ~is_reboot(batch[n])
         THEN Append(EntriesUpTo(n - 1), Entry(batch[n], occ[n].text))
         ELSE EntriesUpTo(n - 1)
MaxParts == 3

\* what the text returned by read_until(prompt) is made of: the echo of the
\* command ended by CRLF or by LF, a line of output, the prompt
RawParts(cmd) ==
    {cmd \o CRLF, cmd \o <<LF>>, <<"UP 3 days", CR, LF>>, main_prompt}
RawOutputs(cmd) == {Flatten(q) : q \in SeqsUpTo(RawParts(cmd), MaxParts)}

\* execute_commands has sent its one command and read_until has returned
InitClean ==
    /\ kind \in {"serial", "telnet"}
    /\ port = IF kind = "serial" THEN "/dev/ttyUSB0" ELSE "23"
    /\ args = [connection_type |-> kind, port |-> port]
    /\ conn = 1
    /\ handles = [h \in Handles |-> IF h = 1 THEN "open" ELSE "unopened"]
    /\ disc = {}
    /\ rx = <<>>
    /\ pc = "ex_read"
    /\ inReboot = FALSE
    /\ \E cmd \in {uptime, uname} :
          /\ batch = <<cmd>>
          /\ sent = cmd \o CRLF
          /\ \E raw \in RawOutputs(cmd) :
                rd = [st |-> "ret", given |-> <<main_prompt>>,
                      pats |-> <<main_prompt>>, buf |-> raw,
                      attempt |-> 0, val |-> raw, emits |-> 0]
    /\ idx = 1
    /\ results = NoResults
    /\ occ = <<>>
    /\ output_file = ""
    /\ log_file = "none"
    /\ sink = <<>>
    /\ trace = <<>>
    /\ connectRet = "none"
    /\ loginRet = "none"
    /\ calRet = "none"

NextClean ==
    \/ execute_store
    \/ execute_return
    \/ after_execute

SpecClean == InitClean /\ [][NextClean]_vars

\* the text without one echo of the command at its start
WithoutLeadingEcho(output, cmd) ==
    IF MatchAt(output, cmd \o CRLF, 1)
    THEN SubSeq(output, Len(cmd) + 3, Len(output))
    ELSE IF MatchAt(output, cmd \o <<LF>>, 1)
         THEN SubSeq(output, Len(cmd) + 2, Len(output))
         ELSE output
OneEchoThenFirstPrompt(output, cmd, prompt) ==
    LET rest == WithoutLeadingEcho(output, cmd)
    IN  Strip(IF Contains(rest, prompt) THEN SplitFirst(rest, prompt)
              ELSE rest)

\* C23: cleaning the raw output of a command removes exactly one echo of the
\* command, and only at the start of the output ("<cmd>\r\n" or "<cmd>\n"),
\* then cuts at the first occurrence of the prompt; a later "<cmd>\n" inside
\* the output is kept.
C23_OneLeadingEchoRemoved ==
    [][(pc = "ex_read" /\ rd.st = "ret") =>
          results'[batch[idx]] =
              Str(OneEchoThenFirstPrompt(rd.val, batch[idx], main_prompt))]_vars

\* ---------------------------------------------------------------------------
\* a batch against a device that answers every command
\* ---------------------------------------------------------------------------

\* the default list of get_system_info: distinct commands, none a reboot
DistinctBatches ==
    {b \in SeqsUpTo({uptime, uname}, MaxBatch) \ {<<>>} :
        \A i, j \in 1..Len(b) : b[i] = b[j] => i = j}

system_info_batch ==
    /\ pc = "menu"
    /\ \E b \in DistinctBatches, f \in OutputFiles : BeginBatch(b, f)
    /\ UNCHANGED <<sessVars, devVars, inReboot, rd, retVars>>

\* "<cmd>\r\n<output>\r\n<prompt>"
FullAnswer(cmd) == cmd \o CRLF \o OutputOf(cmd) \o main_prompt

\* the device answers the command that was written, once: in one piece, or
\* the echo and the output first and the prompt after them
Answer ==
    /\ pc = "ex_read"
    /\ rd.st = "wait"
    /\ conn # 0
    /\ handles[conn] = "open"
    /\ \/ /\ rd.emits = 0
          /\ \/ rx' = Append(rx, FullAnswer(batch[idx]))
                /\ rd' = [rd EXCEPT !.emits = 2]
             \/ rx' = Append(rx, batch[idx] \o CRLF \o OutputOf(batch[idx]))
                /\ rd' = [rd EXCEPT !.emits = 1]
       \/ /\ rd.emits = 1
          /\ rx' = Append(rx, main_prompt)
          /\ rd' = [rd EXCEPT !.emits = 2]
    /\ UNCHANGED <<sessVars, sent, pc, inReboot, execVars, trace, retVars>>

\* a connected session at the menu, nothing waiting in the receive buffer
InitAnswer ==
    /\ kind \in {"serial", "telnet"}
    /\ port = IF kind = "serial" THEN "/dev/ttyUSB0" ELSE "23"
    /\ args = [connection_type |-> kind, port |-> port]
    /\ conn = 1
    /\ handles = [h \in Handles |-> IF h = 1 THEN "open" ELSE "unopened"]
    /\ disc = {}
    /\ rx = <<>>
    /\ sent = <<>>
    /\ pc = "menu"
    /\ inReboot = FALSE
    /\ rd = IdleRead
    /\ batch = <<>>
    /\ idx = 1
    /\ results = NoResults
    /\ occ = <<>>
    /\ output_file = ""
    /\ log_file = "none"
    /\ sink = <<>>
    /\ trace = <<>>
    /\ connectRet = "none"
    /\ loginRet = "none"
    /\ calRet = "none"

NextAnswer ==
    \/ system_info_batch
    \/ execute_send
    \/ execute_store
    \/ execute_return
    \/ after_execute
    \/ Answer
    \/ SerialPoll
    \/ TelnetMatch

SpecAnswer == InitAnswer /\ [][NextAnswer]_vars

\* output of an earlier command that reaches the handle late, before the
\* next command is written
StaleLine == <<"Mem: 64">>
StaleOutput == StaleLine \o CRLF \o main_prompt
LateOutput ==
    /\ pc = "ex_loop"
    /\ idx <= Len(batch)
    /\ conn # 0
    /\ handles[conn] = "open"
    /\ rx = <<>>
    /\ rx' = <<StaleOutput>>
    /\ trace' = Append(trace, Event("a", StaleOutput, TRUE))
    /\ UNCHANGED <<sessVars, sent, pc, inReboot, rd, execVars, retVars>>

NextStale ==
    \/ NextAnswer
    \/ LateOutput

SpecStale == InitAnswer /\ [][NextStale]_vars

AllWritesOk == \A k \in 1..Len(trace) : IsWrite(trace[k]) => trace[k].ok
PlainOutput(cmd) ==
    IF cmd = uname THEN <<"Linux gw 1.0">> ELSE <<"UP 3 days">>

\* C24: for a batch of distinct commands, none a reboot, against a device
\* that answers each command with "<cmd>\r\n<output>\r\n<prompt>",
\* execute_commands returns a mapping from each command to exactly its own
\* output (uptime to "UP 3 days", uname -a to "Linux gw 1.0"), with no echo,
\* no prompt and no output of another command in a value.
C24_EachCommandItsOwnOutput ==
    (pc = "ex_ret" /\ AllWritesOk) =>
        /\ DOMAIN results = {batch[i] : i \in 1..Len(batch)}
        /\ \A i \in 1..Len(batch) :
              results[batch[i]] = Str(PlainOutput(batch[i]))
\* a batch of two commands has returned, every write went through
C24_Witness ==
    /\ pc = "ex_ret"
    /\ AllWritesOk
    /\ Len(batch) = 2
    /\ results[uptime] = Str(<<"UP 3 days">>)
    /\ results[uname] = Str(<<"Linux gw 1.0">>)

\* C25: on the Telnet transport every send empties the receive buffer before
\* it writes, so what the device delivered before a command was written
\* (late output of an earlier command) is not in the text that read_until
\* returns for that command.
C25_TelnetSendDrainsFirst ==
    /\ [](kind = "telnet" /\ pc = "ex_read" /\ rd.st = "ret"
             => ~Contains(rd.val, StaleLine))
    /\ [][(kind = "telnet" /\ pc = "ex_loop" /\ pc' # "ex_loop"
           /\ trace' # trace) => rx' = <<>>]_vars
\* late output was waiting when the second command was written on Telnet, and
\* the read for that command has returned
C25_Witness ==
    /\ kind = "telnet"
    /\ pc = "ex_read"
    /\ rd.st = "ret"
    /\ idx = 2
    /\ rd.val = FullAnswer(batch[2])
    /\ \E k \in 1..(Len(trace) - 1) :
          /\ IsArrival(trace[k]) /\ trace[k].data = StaleOutput
          /\ IsWrite(trace[k + 1]) /\ trace[k + 1].data = batch[2] \o CRLF

\* ---------------------------------------------------------------------------
\* read_until on its own
\* ---------------------------------------------------------------------------

\* pieces the device sends during one read_until, and pieces that wait in
\* the receive buffer
MaxPieces == 2

\* the patterns of a call: the login prompt, the login prompt configured
\* with a blank after it, two prompts
login_prompt_blank == login_prompt \o <<" ">>
PatternLists ==
    {<<login_prompt>>, <<login_prompt_blank>>,
     <<password_prompt, login_prompt>>}

\* what the device sends in one piece: the halves of the login prompt, a
\* line that holds no prompt
Pieces == {<<"login">>, <<":">>, <<"motd", CR, LF>>}

EmitPiece ==
    /\ rd.st = "wait"
    /\ conn # 0
    /\ handles[conn] = "open"
    /\ rd.emits < MaxPieces
    /\ Len(rx) < MaxPieces
    /\ \E piece \in Pieces : rx' = Append(rx, piece)
    /\ rd' = [rd EXCEPT !.emits = rd.emits + 1]
    /\ UNCHANGED <<sessVars, sent, pc, inReboot, execVars, trace, retVars>>

\* a connected session on which read_until(patterns) has just been called
InitRead ==
    /\ kind \in {"serial", "telnet"}
    /\ port = IF kind = "serial" THEN "/dev/ttyUSB0" ELSE "23"
    /\ args = [connection_type |-> kind, port |-> port]
    /\ conn = 1
    /\ handles = [h \in Handles |-> IF h = 1 THEN "open" ELSE "unopened"]
    /\ disc = {}
    /\ rx = <<>>
    /\ sent = <<>>
    /\ pc = "rd_call"
    /\ inReboot = FALSE
    /\ \E patterns \in PatternLists : rd = BeginRead(patterns)
    /\ batch = <<>>
    /\ idx = 1
    /\ results = NoResults
    /\ occ = <<>>
    /\ output_file = ""
    /\ log_file = "none"
    /\ sink = <<>>
    /\ trace = <<>>
    /\ connectRet = "none"
    /\ loginRet = "none"
    /\ calRet = "none"

NextRead ==
    \/ EmitPiece
    \/ SerialPoll
    \/ SerialTimeout
    \/ SerialReadError
    \/ TelnetMatch
    \/ TelnetTimeout
    \/ TelnetEOF
    \/ TelnetReadError

SpecRead == InitRead /\ [][NextRead]_vars

\* the waits of the call have all run out: the one deadline of the serial
\* loop, the max_retries attempts of the Telnet loop
BudgetExhausted ==
    rd.attempt = IF kind = "serial" THEN 1 ELSE max_retries

\* C21: read_until stops as soon as one of the given patterns occurs in the
\* accumulated buffer (a call still waiting has no pattern in its buffer),
\* and when it returns before its timeout/retry budget is used up the
\* returned text contains one of the patterns as the caller passed them.
C21_StopsOnPatternAsPassed ==
    /\ rd.st = "wait" => ~AnyPattern(rd.given, rd.buf)
    /\ (rd.st = "ret" /\ ~BudgetExhausted) => AnyPattern(rd.given, rd.val)

\* C22: when none of the patterns ever appears, read_until ends without
\* raising, after exactly max_retries waits, and returns the sentinel, on
\* both transports, whatever else was received.
PatternNeverAppeared == ~AnyPattern(rd.given, rd.buf \o RxText)
C22_AbsentPatternGivesSentinel ==
    (pc = "rd_call" /\ rd.st \in {"ret", "exc"} /\ PatternNeverAppeared) =>
        /\ rd.st = "ret"
        /\ rd.attempt = max_retries
        /\ rd.val = NoOutput

\* ---------------------------------------------------------------------------
\* the construction of the session
\* ---------------------------------------------------------------------------

\* connection types a caller may give, and the ports: select_connection gives
\* 'serial' with the port typed (or None), 'telnet' with int(port)
ConnectionTypes == {"serial", "SERIAL", "telnet", "Telnet", "usb", ""}
SerialPorts == {"", "/dev/ttyUSB0"}
TelnetPorts == {"23", "2323"}

\* a comparison of the type as it was given
as_given(t) == t

\* str.lower on the connection types
lower(t) ==
    CASE t = "SERIAL" -> "serial"
      [] t = "Telnet" -> "telnet"
      [] OTHER -> t

\* TelnetInterface.__init__(host='192.168.1.1', port=23, timeout=3)
default_telnet_port == "23"

\* GTWOperations.__init__: SerialInterface(port=port), TelnetInterface(host=
\* host), or ValueError
GTWOperations_init ==
    /\ pc = "construct"
    /\ LET connection_type == lower(args.connection_type)
       IN  IF connection_type = "serial"
           THEN /\ kind' = "serial"
                /\ port' = args.port
                /\ pc' = "run_retry"
           ELSE IF connection_type = "telnet"
                THEN /\ kind' = "telnet"
                     /\ port' = default_telnet_port
                     /\ pc' = "run_retry"
                ELSE /\ kind' = "none"
                     /\ port' = ""
                     /\ pc' = "ctor_raise"
    /\ UNCHANGED <<args, conn, handles, disc, devVars, inReboot, rd, execVars,
                   trace, retVars>>

\* GTWOperations(connection_type, port) is about to be called
InitConstruct ==
    /\ kind = "none"
    /\ port = ""
    /\ \E t \in ConnectionTypes :
          \E p \in (IF t \in {"telnet", "Telnet"} THEN TelnetPorts
                    ELSE SerialPorts) :
             args = [connection_type |-> t, port |-> p]
    /\ conn = 0
    /\ handles = [h \in Handles |-> "unopened"]
    /\ disc = {}
    /\ rx = <<>>
    /\ sent = <<>>
    /\ pc = "construct"
    /\ inReboot = FALSE
    /\ rd = IdleRead
    /\ batch = <<>>
    /\ idx = 1
    /\ results = NoResults
    /\ occ = <<>>
    /\ output_file = ""
    /\ log_file = "none"
    /\ sink = <<>>
    /\ trace = <<>>
    /\ connectRet = "none"
    /\ loginRet = "none"
    /\ calRet = "none"

\* the construction, then connect_and_login with its retries
NextConstruct ==
    \/ GTWOperations_init
    \/ connect
    \/ login_start
    \/ login_username
    \/ login_password
    \/ login_newline
    \/ login_finish
    \/ after_connect_and_login
    \/ ask_retry
    \/ Emit
    \/ SerialPoll
    \/ SerialTimeout
    \/ SerialReadError
    \/ TelnetMatch
    \/ TelnetTimeout
    \/ TelnetEOF
    \/ TelnetReadError

SpecConstruct == InitConstruct /\ [][NextConstruct]_vars

\* the kind of transport a connection type selects, "none" when it is
\* neither 'serial' nor 'telnet' in any case
SelectedKind(t) ==
    IF t \in {"serial", "SERIAL"} THEN "serial"
    ELSE IF t \in {"telnet", "Telnet"} THEN "telnet"
    ELSE "none"
Constructed == pc \notin {"construct", "ctor_raise"}

\* C31: a session constructed with a connection type other than 'serial' or
\* 'telnet', compared without regard to case, raises and has no transport;
\* with a valid type one transport of the selected kind is created, and the
\* session uses no other transport afterwards.
C31_OneTransportOfSelectedKind ==
    /\ [](pc = "ctor_raise" =>
             /\ SelectedKind(args.connection_type) = "none"
             /\ kind = "none"
             /\ conn = 0
             /\ OpenHandles = {})
    /\ [](Constructed =>
             /\ kind = SelectedKind(args.connection_type)
             /\ kind \in {"serial", "telnet"})
    /\ [][Constructed => kind' = kind]_vars
\* a session constructed with 'SERIAL' or 'Telnet' holds an open handle of
\* its transport
C31_Witness ==
    /\ args.connection_type \in {"SERIAL", "Telnet"}
    /\ conn # 0
    /\ handles[conn] = "open"
    /\ loginRet = "true"

\* C38: a Telnet session dials the port the caller selected: the port passed
\* to the constructor is the port of TelnetInterface.connect, for every port
\* value.
C38_TelnetDialsSelectedPort ==
    (kind = "telnet" /\ connectRet # "none") => port = args.port

\* ---------------------------------------------------------------------------
\* the menu operations that use the result of their command
\* ---------------------------------------------------------------------------

\* a menu operation calls execute_commands with its one command
menu_operation ==
    /\ pc = "menu"
    /\ \E cmd \in MenuCommands : BeginBatch(<<cmd>>, "")
    /\ UNCHANGED <<sessVars, devVars, inReboot, rd, retVars>>

\* operations that use the result inside try/except Exception
\* (_execute_config_commands, auto_ping_test); the others call .strip() on
\* it with nothing around
InsideTry(cmd) == cmd \in {config_cmd, ping_cmd}

\* next(iter(results.values())) is used: on None, .strip() and `in` raise;
\* the exception is printed by the operation, or leaves it for run()
use_result ==
    /\ pc = "ex_ret"
    /\ pc' = IF results[batch[1]] = None /\ ~InsideTry(batch[1])
             THEN "op_raise" ELSE "menu"
    /\ batch' = <<>>
    /\ idx' = 1
    /\ results' = NoResults
    /\ occ' = <<>>
    /\ output_file' = ""
    /\ log_file' = log_file
    /\ sink' = <<>>
    /\ trace' = <<>>
    /\ sent' = <<>>
    /\ UNCHANGED <<sessVars, rx, inReboot, rd, retVars>>

NextMenu ==
    \/ menu_operation
    \/ execute_send
    \/ execute_store
    \/ execute_return
    \/ use_result
    \/ run_except
    \/ exit
    \/ Emit
    \/ SerialPoll
    \/ SerialTimeout
    \/ SerialReadError
    \/ TelnetMatch
    \/ TelnetTimeout
    \/ TelnetEOF
    \/ TelnetReadError

SpecMenu == InitExec /\ [][NextMenu]_vars

\* C33: a failure of one command never stops the menu loop: when the command
\* of a menu operation comes back with None, the operation reports it,
\* control is back at the menu, and the process does not exit.
C33_NullResultBackToMenu ==
    [][(pc = "ex_ret" /\ results[batch[1]] = None) => pc' = "menu"]_vars

\* C34: execute_commands on a session that is not connected (never
\* connected, or disconnected) returns without raising and without a read or
\* a write on a transport, and every command of the batch, a reboot command
\* too, maps to None.
InBatch == pc \in {"ex_loop", "ex_read", "ex_ret"}
C34_NotConnectedGivesAllNone ==
    (~is_connected /\ InBatch) =>
        /\ pc # "ex_read"
        /\ trace = <<>>
        /\ \A i \in 1..Len(occ) : occ[i] = None
        /\ \A i \in 1..(idx - 1) : results[batch[i]] = None
        /\ pc = "ex_ret" => DOMAIN results = {batch[i] : i \in 1..Len(batch)}
\* a batch of two commands, one of them reboot, has returned on a session
\* that holds no handle
C34_Witness ==
    /\ conn = 0
    /\ pc = "ex_ret"
    /\ Len(batch) = 2
    /\ batch[1] = reboot
    /\ batch[2] = uptime
    /\ results[reboot] = None
    /\ results[uptime] = None

\* C35: on the serial transport the result recorded for a command is built
\* only from what the device sent after that command was written: output of
\* an earlier command that arrives late is never part of the result of a
\* later command.
C35_SerialResultFromOwnOutput ==
    kind = "serial" =>
        \A i \in 1..Len(occ) :
            occ[i] # None => ~Contains(occ[i].text, StaleLine)

\* C36: after any call of disconnect(), whether it returned or the close
\* failed, the session holds no handle: is_connected() is false and a
\* following send_command is rejected as not connected.
C36_NoHandleAfterDisconnect ==
    [][(DisconnectCalled /\ pc' # pc) =>
          /\ conn' = 0
          /\ ~is_connected']_vars

\* C37: the session is used again after disconnect: in the reboot test the
\* handle is closed and dropped before connect_and_login is called again on
\* the same session; when the reconnect succeeds the session holds a new
\* open handle, and when it fails the session is Disconnected.
ReconnectReturned == pc = "cal_ret" /\ inReboot
C37_ReconnectAfterReboot ==
    /\ pc = "rb_reconnect" => conn = 0
    /\ (ReconnectReturned /\ calRet = "true") =>
          /\ conn # 0
          /\ conn \notin disc
          /\ handles[conn] = "open"
    /\ (ReconnectReturned /\ calRet = "false") =>
          /\ conn = 0
          /\ ~is_connected

\* C32: in execute_commands every command of the batch is written once and
\* in batch order, the next command is written only after the read for the
\* command before it has returned, and read_until writes nothing: a retry
\* after a timeout waits again and does not send the command again.
CommandsSent == IF pc = "ex_read" THEN idx ELSE idx - 1
C32_OneWritePerCommandInOrder ==
    /\ []((InBatch /\ is_connected) =>
             /\ Len(Writes) = CommandsSent
             /\ \A i \in 1..Len(Writes) : Writes[i].data = batch[i] \o CRLF)
    /\ [](InBatch =>
             \A k \in 1..(Len(trace) - 1) :
                 (IsWrite(trace[k]) /\ IsWrite(trace[k + 1])) =>
                     \/ ~trace[k].ok
                     \/ \E c \in Commands :
                           is_reboot(c) /\ trace[k].data = c \o CRLF)
    /\ [][(pc = "ex_read" /\ rd.st = "wait") => Writes' = Writes]_vars
\* the read for the second command of a batch is in its second attempt on
\* Telnet, after the first one timed out
C32_Witness ==
    /\ kind = "telnet"
    /\ pc = "ex_read"
    /\ rd.st = "wait"
    /\ rd.attempt >= 1
    /\ idx = 2
    /\ Len(Writes) = 2

====
